---- MODULE Spec2Model ----
(***************************************************************************)
(* State-machine model of the flash-controller driver src/src/flash.rs    *)
(* and of the DMA channel driver src/src/dma.rs.                           *)
(*                                                                         *)
(* One driver call is in progress at a time (pc # "idle"); every volatile *)
(* register or memory access of the call is one step, so that the         *)
(* controller hardware (HwDone) can finish a command between two          *)
(* accesses.  The chip family is the cargo feature the crate was built    *)
(* with: it is chosen once in Init and never changes.                     *)
(*                                                                         *)
(* Register sets.  The l5 build has two parallel register sets            *)
(* (nskeyr/nscr/nssr and seckeyr/seccr/secsr), selected by the Security   *)
(* argument.  The other builds have one set (keyr/cr/sr) and no Security  *)
(* argument: it is kept in the "NonSecure" slot and every call carries    *)
(* security = "NonSecure".                                                 *)
(*                                                                         *)
(* Field names.  f4 names the page-erase enable SER and the page number   *)
(* SNB, f3/f4/g0 name the mass-erase enable MER, g0/g4/f3/f4 name the     *)
(* start bit STRT: the model calls them per, pnb, mer1 and strt on every  *)
(* chip.  The status flags keep the names of the source (pgerr and        *)
(* wrprterr on f3).                                                        *)
(*                                                                         *)
(* 32-bit values are pairs <<high 16 bits, low 16 bits>>, 64-bit values   *)
(* are 4-tuples of 16-bit limbs, most significant first.                  *)
(*                                                                         *)
(* Specifications.  Spec runs up to MaxCalls calls of unlock, lock,       *)
(* erase_page, erase_bank and write_page with a few page indices.         *)
(* PagesSpec runs one erase_page or write_page for every page index of    *)
(* SweepPages.  ReadSpec runs one write_page or unlock and then read and  *)
(* read_to_buffer, which touch no register and take one step each.        *)
(* FairSpec runs one mutating call under weak fairness of the driver's    *)
(* steps and of the controller finishing its operation.  LongSpec runs    *)
(* one write_page with as many double words as a page holds, and one more. *)
(* DmaSpec runs up to MaxCalls calls of cfg_channel and stop of the DMA    *)
(* driver src/src/dma.rs.                                                   *)
(***************************************************************************)
EXTENDS Integers, Sequences, FiniteSets, TLC

VARIABLES
    chip,      \* cargo feature of the build
    cr,        \* control register per register set
    sr,        \* status register per register set
    keyst,     \* hardware key sequencer per register set
    ar,        \* f3 address register FLASH_AR
    mem,       \* flash memory: byte address of a word -> 32-bit word
    pc,        \* position of the running call ("idle" between calls)
    op,        \* the running / last call
    page,      \* argument `page`
    banks,     \* argument `banks`
    data,      \* argument `data`
    offset,    \* argument `offset` of read and read_to_buffer
    buff,      \* argument `buff` of read_to_buffer, as the call leaves it
    value,     \* the cell the last read returned
    security,  \* argument `security`
    srRead,    \* local `sr` of the busy check
    idx,       \* number of double words of `data` already written
    address,   \* local `address` of write_page
    pending,   \* result to return after the lock step
    result,    \* result of the last call that returned
    log,       \* register and memory accesses of the running / last call
    cr0,       \* control register of the selected set at call entry
    sr0,       \* status register of the selected set at call entry
    mem0,      \* flash memory at call entry
    calls,     \* number of calls started
    dch,       \* DMA channel registers: CCRx fields, CPARx, CMARx, CNDTRx
    dpc,       \* position of the running Dma call ("idle" between calls)
    dop,       \* the running / last Dma call
    darg,      \* its arguments
    dlog,      \* its register writes, each with EN as it was at the write
    dcalls     \* number of Dma calls started

vars == <<chip, cr, sr, keyst, ar, mem, pc, op, page, banks, data, offset, buff,
          value, security, srRead, idx, address, pending, result, log, cr0, sr0,
          mem0, calls, dch, dpc, dop, darg, dlog, dcalls>>

\* The state of the DMA driver src/src/dma.rs, which the flash driver never
\* touches.
dmaVars == <<dch, dpc, dop, darg, dlog, dcalls>>

\* The state of the flash driver, which the DMA driver never touches.
flashVars == <<cr, sr, keyst, ar, mem, pc, op, page, banks, data, offset, buff,
               value, security, srRead, idx, address, pending, result, log, cr0,
               sr0, mem0, calls>>

hwVars == <<cr, sr, keyst, ar, mem>>
argVars == <<op, page, banks, data, offset, buff, value, security, cr0, sr0, mem0,
             calls>>

----------------------------------------------------------------------------
(* Bounds of the model *)

MaxCalls == 2
MaxData == 2
MaxBuff == 2

----------------------------------------------------------------------------
(* Program constants *)

FLASH_KEY1 == <<17767, 291>>       \* 0x4567_0123
\* Mutant: a digit of the second key is wrong (0xCDEF_89AA).
FLASH_KEY2_Typo == <<52719, 35242>>
FLASH_KEY2 == <<52719, 35243>>     \* 0xCDEF_89AB

FLASH_BASE == 134217728            \* 0x0800_0000
PAGE_SIZE == 2048
BANK_SPLIT == 256

Chips == {"f3", "f4", "g0", "g4", "l4", "l5"}
Security == {"NonSecure", "Secure"}
BanksToErase == {"Bank1", "Bank2", "Both"}
Error == {"Busy", "Illegal", "EccError", "PageOutOfRange", "Failure"}

Domains(c) == IF c = "l5" THEN Security ELSE {"NonSecure"}

\* Error flags the status register of a build has (the ones the source names).
SrFlags(c) ==
    CASE c = "f3" -> {"pgerr", "wrprterr"}
      [] c = "f4" -> {"pgaerr"}
      [] c = "l5" -> {"pgaerr", "pgserr", "progerr", "wrperr"}
      [] OTHER    -> {"pgaerr", "progerr", "wrperr"}

\* Page indices and data slices the calls are made with: a page of each
\* bank and the first index past the second bank.
Pages == {0, 256, 512}
WritePages == {0, 512}
\* Lengths of the slices write_page is called with in Spec: empty, one
\* double word, several.
WriteLens == {0, 1, 2}

DwordAt(i) == <<4386 + i, 13124, 21862, 30600 + i>>   \* 0x1122_3344_5566_7788 + ...
DataOf(n) == [i \in 1..n |-> DwordAt(i - 1)]

ResetCr == [lock |-> TRUE, pg |-> FALSE, per |-> FALSE, mer1 |-> FALSE,
            mer2 |-> FALSE, strt |-> FALSE, bker |-> FALSE, pnb |-> 0]
CleanSr == [bsy |-> FALSE, eop |-> FALSE, errs |-> {}]

----------------------------------------------------------------------------
(* Access log *)

\* One access: k = "R" | "W"; reg = "keyr" | "cr" | "sr" | "ar" | "mem";
\* val = the value written (key, word, page number or address);
\* set / clr = the bit fields the write sets / clears.
Ev(k, reg, dom, addr, val, set, clr) ==
    [k |-> k, reg |-> reg, dom |-> dom, addr |-> addr, val |-> val,
     set |-> set, clr |-> clr]

Rd(reg, dom) == Ev("R", reg, dom, 0, <<>>, {}, {})
WrKey(dom, key) == Ev("W", "keyr", dom, 0, key, {}, {})
WrCr(dom, val, set, clr) == Ev("W", "cr", dom, 0, val, set, clr)
WrSr(dom, ones) == Ev("W", "sr", dom, 0, <<>>, ones, {})
WrAr(p) == Ev("W", "ar", "NonSecure", 0, <<p>>, {}, {})
WrMem(addr, word) == Ev("W", "mem", "NonSecure", addr, word, {}, {})
\* A read of `bytes` bytes of flash.
RdMem(addr, bytes) == Ev("R", "mem", "NonSecure", addr, <<bytes>>, {}, {})

\* A poll that repeats the previous access of the log is not logged again.
Polled(l, dom) ==
    IF l # <<>> /\ l[Len(l)].k = "R" /\ l[Len(l)].reg = "sr" /\ l[Len(l)].dom = dom
    THEN l ELSE Append(l, Rd("sr", dom))

Writes(l) == {i \in 1..Len(l) : l[i].k = "W"}
KeyWrites(l) == {i \in Writes(l) : l[i].reg = "keyr"}
MemWrites(l) == {i \in Writes(l) : l[i].reg = "mem"}

\* The writes other than the key sequence and the lock bit.
CommandWrites(l) ==
    {i \in Writes(l) : \/ l[i].reg \in {"sr", "ar", "mem"}
                       \/ l[i].reg = "cr" /\ (l[i].set \cup l[i].clr) # {"lock"}}

----------------------------------------------------------------------------
(* Pure functions of the driver *)

\* Mutant: the page size of the devices with 1 Kbyte pages.
page_to_address_Kb(p) == FLASH_BASE + p * (PAGE_SIZE \div 2)

\* page_to_address
page_to_address(p) == FLASH_BASE + p * PAGE_SIZE

\* Mutant: the write-protection flag is not read.
CheckedFlags_NoWrp(c, sec) ==
    CASE c = "f3" -> {"pgerr"}
      [] c = "f4" -> {"pgaerr"}
      [] c = "l5" /\ sec = "NonSecure" -> {"pgaerr", "pgserr", "progerr"}
      [] c = "l5" /\ sec = "Secure"    -> {"pgaerr", "pgaerr", "progerr"}
      [] OTHER -> {"pgaerr", "progerr"}

\* check_illegal: the error flags it reads
CheckedFlags(c, sec) ==
    CASE c = "f3" -> {"pgerr", "wrprterr"}
      [] c = "f4" -> {"pgaerr"}
      [] c = "l5" /\ sec = "NonSecure" -> {"pgaerr", "pgserr", "progerr", "wrperr"}
      [] c = "l5" /\ sec = "Secure"    -> {"pgaerr", "pgaerr", "progerr", "wrperr"}
      [] OTHER -> {"pgaerr", "progerr", "wrperr"}

\* check_illegal(flash[, security]): TRUE when it returns Err(Illegal)
check_illegal(c, sec, s) == (s.errs \cap CheckedFlags(c, sec)) # {}

\* Mutant: the first word written is the high half of the double word.
LowWord_Shifted(d) == <<d[1], d[2]>>

\* `*dword as u32` and `(*dword >> 32) as u32`
LowWord(d) == <<d[3], d[4]>>
HighWord(d) == <<d[1], d[2]>>

\* Mutant: clear_bit in place of set_bit.
lock_ClearBit(c) == [c EXCEPT !.lock = FALSE]

\* lock(): cr.modify(|_, w| w.lock().set_bit())
lock(c) == [c EXCEPT !.lock = TRUE]

\* `page as u8`
AsU8(p) == p % 256

----------------------------------------------------------------------------
(* Hardware *)

\* The key pair the controller accepts.
HwKeys == << <<17767, 291>>, <<52719, 35243>> >>

\* Content of an erased word, 0xFFFF_FFFF.
Erased == <<65535, 65535>>

\* The words of flash the calls of the model can reach.
MemAddrs == {FLASH_BASE + p * PAGE_SIZE + 4 * k : p \in WritePages, k \in 0..(2 * MaxData - 1)}

\* Status register write: EOP and the error flags are cleared by writing 1.
SrAfterWrite(s, ones) ==
    [s EXCEPT !.eop = IF "eop" \in ones THEN FALSE ELSE @,
              !.errs = @ \ ones]

\* The bits a modify of the status register writes back as 1.
SrOnes(s) == s.errs \cup (IF s.eop THEN {"eop"} ELSE {})

----------------------------------------------------------------------------
(* The DMA controller: enums, channel registers, arguments of the calls *)

\* DmaChannel: C1 = 1 .. C7 = 7
DmaChannel == 1..7

\* `priority as u8`: Low = 0b00, Medium = 0b01, High = 0b10, VeryHigh = 0b11
PriorityBits(p) ==
    CASE p = "Low" -> 0
      [] p = "Medium" -> 1
      [] p = "High" -> 2
      [] p = "VeryHigh" -> 3

\* `direction as u8 != 0`: ReadFromPeriph = 0, ReadFromMem = 1
DirectionBit(d) == d = "ReadFromMem"

\* `circular as u8 != 0`, `periph_incr as u8 != 0`, `mem_incr as u8 != 0`:
\* Disabled = 0, Enabled = 1
EnabledBit(e) == e = "Enabled"

\* `periph_size as u8`: S8 = 0b00, S16 = 0b01, S32 = 0b10
DataSizeBits(z) ==
    CASE z = "S8" -> 0
      [] z = "S16" -> 1
      [] z = "S32" -> 2

\* The registers of one channel at reset: the fields of DMA_CCRx the driver
\* names, DMA_CPARx, DMA_CMARx and the NDT field of DMA_CNDTRx.
ResetCh == [en |-> FALSE, mem2mem |-> FALSE, pl |-> 0, dir |-> FALSE,
            circ |-> FALSE, pinc |-> FALSE, minc |-> FALSE, psize |-> 0,
            msize |-> 0, par |-> <<0, 0>>, mar |-> <<0, 0>>, ndt |-> 0]

\* The channels, the block (peripheral register 0x4000_4428, memory address
\* 0x2000_0100, two items) and the CCR settings the calls of the model are
\* made with.
CfgChannels == {1, 7}

DmaTransfers ==
    {[periph_reg |-> <<16384, 17448>>, mem_addr |-> <<8192, 256>>, num_data |-> 2]}

DmaSettings ==
    {[priority |-> "Low", direction |-> "ReadFromPeriph", circular |-> "Disabled",
      periph_incr |-> "Disabled", mem_incr |-> "Enabled",
      periph_size |-> "S8", mem_size |-> "S16"],
     [priority |-> "VeryHigh", direction |-> "ReadFromMem", circular |-> "Enabled",
      periph_incr |-> "Enabled", mem_incr |-> "Disabled",
      periph_size |-> "S32", mem_size |-> "S8"],
     [priority |-> "Medium", direction |-> "ReadFromMem", circular |-> "Disabled",
      periph_incr |-> "Enabled", mem_incr |-> "Enabled",
      periph_size |-> "S16", mem_size |-> "S32"]}

NoDmaArg == [channel |-> 1, periph_reg |-> <<0, 0>>, mem_addr |-> <<0, 0>>,
             num_data |-> 0, priority |-> "Low", direction |-> "ReadFromPeriph",
             circular |-> "Disabled", periph_incr |-> "Disabled",
             mem_incr |-> "Disabled", periph_size |-> "S8", mem_size |-> "S8"]

\* No Dma call has been made.
DmaIdle ==
    /\ dpc = "idle"
    /\ dop = "none"
    /\ darg = NoDmaArg
    /\ dlog = <<>>
    /\ dcalls = 0

----------------------------------------------------------------------------
FlashInit ==
    /\ chip \in Chips
    /\ cr = [d \in Security |-> ResetCr]
    /\ \E d \in Domains(chip) :
         \E b \in BOOLEAN, e \in {{}} \cup {{f} : f \in SrFlags(chip)} :
            sr = [x \in Security |->
                     IF x = d THEN [bsy |-> b, eop |-> FALSE, errs |-> e]
                     ELSE CleanSr]
    /\ keyst = [d \in Security |-> "none"]
    /\ ar = 0
    /\ mem = [a \in MemAddrs |-> Erased]
    /\ pc = "idle"
    /\ op = "none"
    /\ page = 0
    /\ banks = "Bank1"
    /\ data = <<>>
    /\ offset = 0
    /\ buff = <<>>
    /\ value = <<>>
    /\ security = "NonSecure"
    /\ srRead = CleanSr
    /\ idx = 0
    /\ address = 0
    /\ pending = "Ok"
    /\ result = "none"
    /\ log = <<>>
    /\ cr0 = ResetCr
    /\ sr0 = CleanSr
    /\ mem0 = mem
    /\ calls = 0

\* The flash controller as Flash::new finds it, the DMA controller at reset.
Init ==
    /\ FlashInit
    /\ dch = [c \in DmaChannel |-> ResetCh]
    /\ DmaIdle

----------------------------------------------------------------------------
(* Calls *)

Enter(o, p, b, n, sec, first) ==
    /\ calls < MaxCalls
    /\ sec \in Domains(chip)
    /\ op' = o
    /\ page' = p
    /\ banks' = b
    /\ data' = DataOf(n)
    /\ offset' = 0
    /\ buff' = <<>>
    /\ value' = <<>>
    /\ security' = sec
    /\ cr0' = cr[sec]
    /\ sr0' = sr[sec]
    /\ mem0' = mem
    /\ calls' = calls + 1
    /\ srRead' = CleanSr
    /\ idx' = 0
    /\ address' = 0
    /\ pending' = "Ok"
    /\ result' = "none"
    /\ log' = <<>>
    /\ pc' = first
    /\ UNCHANGED <<chip, dmaVars, hwVars>>

CallUnlock(sec) ==
    /\ pc = "idle"
    /\ Enter("unlock", 0, "Bank1", 0, sec, "key1")

CallLock(sec) ==
    /\ pc = "idle"
    /\ Enter("lock", 0, "Bank1", 0, sec, "lock")

CallErasePage(p, sec) ==
    /\ pc = "idle"
    /\ Enter("erase_page", p, "Bank1", 0, sec, "key1")

CallEraseBank(b, sec) ==
    /\ pc = "idle"
    /\ Enter("erase_bank", 0, b, 0, sec, "key1")

CallWritePage(p, n, sec) ==
    /\ pc = "idle"
    /\ Enter("write_page", p, "Bank1", n, sec, "key1")

Return(r) ==
    /\ pc' = "idle"
    /\ result' = r

----------------------------------------------------------------------------
(* unlock *)

\* Mutant: the first key goes to the key register of the NonSecure set,
\* whatever the Security argument is.
UnlockKey1_NsKey ==
    /\ pc = "key1"
    /\ log' = Append(log, WrKey("NonSecure", FLASH_KEY1))
    /\ keyst' = [keyst EXCEPT !["NonSecure"] =
                    IF FLASH_KEY1 = HwKeys[1] THEN "k1" ELSE "none"]
    /\ pc' = "key2"
    /\ UNCHANGED <<chip, dmaVars, cr, sr, ar, mem, argVars, srRead, idx, address, pending, result>>

\* keyr.write(FLASH_KEY1)
UnlockKey1 ==
    /\ pc = "key1"
    /\ log' = Append(log, WrKey(security, FLASH_KEY1))
    /\ keyst' = [keyst EXCEPT ![security] =
                    IF FLASH_KEY1 = HwKeys[1] THEN "k1" ELSE "none"]
    /\ pc' = "key2"
    /\ UNCHANGED <<chip, dmaVars, cr, sr, ar, mem, argVars, srRead, idx, address, pending, result>>

\* keyr.write(FLASH_KEY2): a controller that accepts the sequence clears LOCK
UnlockKey2 ==
    /\ pc = "key2"
    /\ log' = Append(log, WrKey(security, FLASH_KEY2))
    /\ keyst' = [keyst EXCEPT ![security] = "none"]
    /\ \E accept \in BOOLEAN :
          cr' = [cr EXCEPT ![security].lock =
                    IF keyst[security] = "k1" /\ FLASH_KEY2 = HwKeys[2] /\ accept
                    THEN FALSE ELSE @]
    /\ pc' = "rdlock"
    /\ UNCHANGED <<chip, dmaVars, sr, ar, mem, argVars, srRead, idx, address, pending, result>>

\* if cr.read().lock().bit_is_clear() { Ok(()) } else { Err(Error::Failure) }
UnlockResult(c) == IF ~c.lock THEN "Ok" ELSE "Failure"

\* Mutant: a caller whose unlock failed goes through the lock step.
UnlockReadLock_LockOnFailure ==
    /\ pc = "rdlock"
    /\ log' = Append(log, Rd("cr", security))
    /\ IF op = "unlock"
       THEN Return(UnlockResult(cr[security])) /\ UNCHANGED pending
       ELSE /\ pending' = IF UnlockResult(cr[security]) = "Ok" THEN pending ELSE "Failure"
            /\ pc' = IF UnlockResult(cr[security]) = "Ok" THEN "busychk" ELSE "lock"
            /\ UNCHANGED result
    /\ UNCHANGED <<chip, dmaVars, hwVars, argVars, srRead, idx, address>>

\* the read of the lock bit, and the `?` of the callers
UnlockReadLock ==
    /\ pc = "rdlock"
    /\ log' = Append(log, Rd("cr", security))
    /\ IF UnlockResult(cr[security]) = "Ok" /\ op # "unlock"
       THEN pc' = "busychk" /\ UNCHANGED result
       ELSE Return(UnlockResult(cr[security]))
    /\ UNCHANGED <<chip, dmaVars, hwVars, argVars, srRead, idx, address, pending>>

----------------------------------------------------------------------------
(* lock *)

Lock ==
    /\ pc = "lock"
    /\ cr' = [cr EXCEPT ![security] = lock(@)]
    /\ log' = log \o <<Rd("cr", security), WrCr(security, <<>>, {"lock"}, {})>>
    /\ Return(IF op = "lock" THEN "Unit" ELSE pending)
    /\ UNCHANGED <<chip, dmaVars, sr, keyst, ar, mem, argVars, srRead, idx, address, pending>>

----------------------------------------------------------------------------
(* The prefix shared by erase_page, erase_bank and write_page *)

\* Mutant: the busy branch returns without the lock step.
BusyCheck_NoLock ==
    /\ pc = "busychk"
    /\ srRead' = sr[security]
    /\ log' = Append(log, Rd("sr", security))
    /\ IF sr[security].bsy
       THEN pending' = "Busy" /\ Return("Busy")
       ELSE pending' = pending /\ pc' = "illegal" /\ UNCHANGED result
    /\ UNCHANGED <<chip, dmaVars, hwVars, argVars, idx, address>>

\* Mutant: a busy controller is polled a second time before the call gives up.
BusyCheck_Retry ==
    /\ pc = "busychk"
    /\ srRead' = sr[security]
    /\ log' = Append(log, Rd("sr", security))
    /\ IF sr[security].bsy
       THEN IF log[Len(log)] = Rd("sr", security)
            THEN pending' = "Busy" /\ pc' = "lock"
            ELSE pending' = pending /\ pc' = "busychk"
       ELSE pending' = pending /\ pc' = "illegal"
    /\ UNCHANGED <<chip, dmaVars, hwVars, argVars, idx, address, result>>

\* let sr = sr.read(); if sr.bsy().bit_is_set() { lock(); return Err(Busy) }
BusyCheck ==
    /\ pc = "busychk"
    /\ srRead' = sr[security]
    /\ log' = Append(log, Rd("sr", security))
    /\ IF sr[security].bsy
       THEN pending' = "Busy" /\ pc' = "lock"
       ELSE pending' = pending /\ pc' = "illegal"
    /\ UNCHANGED <<chip, dmaVars, hwVars, argVars, idx, address, result>>

FirstStep(o) ==
    CASE o = "erase_page" -> "ep_select"
      [] o = "erase_bank" -> "eb_mer"
      [] o = "write_page" -> "wp_pg"

\* Mutant: the error branch clears the flags it found before it returns.
CheckIllegal_Clears ==
    /\ pc = "illegal"
    /\ IF check_illegal(chip, security, sr[security])
       THEN /\ pending' = "Illegal"
            /\ pc' = "lock"
            /\ sr' = [sr EXCEPT ![security] = SrAfterWrite(@, SrOnes(@))]
            /\ log' = log \o <<Rd("sr", security), WrSr(security, SrOnes(sr[security]))>>
       ELSE /\ pending' = pending
            /\ pc' = FirstStep(op)
            /\ log' = Append(log, Rd("sr", security))
            /\ UNCHANGED sr
    /\ UNCHANGED <<chip, dmaVars, cr, keyst, ar, mem, argVars, srRead, idx, address, result>>

\* if check_illegal(..).is_err() { lock(); return Err(Illegal) }
CheckIllegal ==
    /\ pc = "illegal"
    /\ log' = Append(log, Rd("sr", security))
    /\ IF check_illegal(chip, security, sr[security])
       THEN pending' = "Illegal" /\ pc' = "lock"
       ELSE pending' = pending /\ pc' = FirstStep(op)
    /\ UNCHANGED <<chip, dmaVars, hwVars, argVars, srRead, idx, address, result>>

----------------------------------------------------------------------------
(* The busy-wait: while sr.read().bsy().bit_is_set() {} *)

BusyWait(at, next) ==
    /\ log' = Polled(log, security)
    /\ pc' = IF sr[security].bsy THEN at ELSE next
    /\ UNCHANGED <<chip, dmaVars, hwVars, argVars, srRead, idx, address, pending, result>>

----------------------------------------------------------------------------
(* erase_page *)

\* Step 3: the page selection of each build.  Only the `match page` of the
\* dual-bank builds has an arm that returns PageOutOfRange.
OutOfRangeArm(c, p) == c \in {"l4", "l5"} /\ p \notin 0..(2 * BANK_SPLIT - 1)

\* Mutant: the arm of the second bank does not set the bank-select bit.
PageSelect_Bank0(c, p, r) ==
    CASE c = "f3" -> [r EXCEPT !.per = TRUE]
      [] c = "f4" -> [r EXCEPT !.per = TRUE, !.pnb = AsU8(p)]
      [] c \in {"g0", "g4"} -> [r EXCEPT !.pnb = AsU8(p), !.per = TRUE]
      [] OTHER ->
           IF p \in 0..(BANK_SPLIT - 1)
           THEN [r EXCEPT !.bker = FALSE, !.pnb = AsU8(p), !.per = TRUE]
           ELSE IF p \in BANK_SPLIT..(2 * BANK_SPLIT - 1)
           THEN [r EXCEPT !.bker = FALSE, !.pnb = AsU8(p - BANK_SPLIT), !.per = TRUE]
           ELSE r

\* The control register after the modify of step 3.
PageSelect(c, p, r) ==
    CASE c = "f3" -> [r EXCEPT !.per = TRUE]
      [] c = "f4" -> [r EXCEPT !.per = TRUE, !.pnb = AsU8(p)]
      [] c \in {"g0", "g4"} -> [r EXCEPT !.pnb = AsU8(p), !.per = TRUE]
      [] OTHER ->
           IF p \in 0..(BANK_SPLIT - 1)
           THEN [r EXCEPT !.bker = FALSE, !.pnb = AsU8(p), !.per = TRUE]
           ELSE IF p \in BANK_SPLIT..(2 * BANK_SPLIT - 1)
           THEN [r EXCEPT !.bker = TRUE, !.pnb = AsU8(p - BANK_SPLIT), !.per = TRUE]
           ELSE r

\* The fields the modify of step 3 names.
PageSelectEv(c, sec, p) ==
    CASE c = "f3" -> WrCr(sec, <<>>, {"per"}, {})
      [] c = "f4" -> WrCr(sec, <<AsU8(p)>>, {"per"}, {})
      [] c \in {"g0", "g4"} -> WrCr(sec, <<AsU8(p)>>, {"per"}, {})
      [] OTHER ->
           IF p \in 0..(BANK_SPLIT - 1)
           THEN WrCr(sec, <<AsU8(p)>>, {"per"}, {"bker"})
           ELSE WrCr(sec, <<AsU8(p - BANK_SPLIT)>>, {"per", "bker"}, {})

EpSelect ==
    /\ pc = "ep_select"
    /\ IF OutOfRangeArm(chip, page)
       THEN /\ Return("PageOutOfRange")
            /\ UNCHANGED <<cr, log>>
       ELSE /\ cr' = [cr EXCEPT ![security] = PageSelect(chip, page, @)]
            /\ log' = log \o <<Rd("cr", security), PageSelectEv(chip, security, page)>>
            /\ pc' = IF chip = "f3" THEN "ep_ar" ELSE "ep_start"
            /\ UNCHANGED result
    /\ UNCHANGED <<chip, dmaVars, sr, keyst, ar, mem, argVars, srRead, idx, address, pending>>

\* f3: ar.write(|w| w.bits(page as u32))
EpAr ==
    /\ pc = "ep_ar"
    /\ ar' = page
    /\ log' = Append(log, WrAr(page))
    /\ pc' = "ep_start"
    /\ UNCHANGED <<chip, dmaVars, cr, sr, keyst, mem, argVars, srRead, idx, address, pending, result>>

\* Step 4: cr.modify(|_, w| w.strt().set_bit()); the controller goes busy
Start(next) ==
    /\ cr' = [cr EXCEPT ![security].strt = TRUE]
    /\ sr' = [sr EXCEPT ![security].bsy = TRUE]
    /\ log' = log \o <<Rd("cr", security), WrCr(security, <<>>, {"strt"}, {})>>
    /\ pc' = next
    /\ UNCHANGED <<chip, dmaVars, keyst, ar, mem, argVars, srRead, idx, address, pending, result>>

EpStart ==
    /\ pc = "ep_start"
    /\ Start("ep_wait")

\* Mutant: the call goes on after the start write without polling busy.
EpWait_NoPoll ==
    /\ pc = "ep_wait"
    /\ pc' = IF chip = "l5" THEN "lock" ELSE "ep_clear"
    /\ UNCHANGED <<chip, dmaVars, hwVars, argVars, srRead, idx, address, pending, result, log>>

\* Step 5
EpWait ==
    /\ pc = "ep_wait"
    /\ BusyWait("ep_wait", IF chip = "l5" THEN "lock" ELSE "ep_clear")

\* After the wait: f3 and f4 clear EOP, the other builds without l5 clear PER
EpClear ==
    /\ pc = "ep_clear"
    /\ IF chip \in {"f3", "f4"}
       THEN /\ sr' = [sr EXCEPT ![security] = SrAfterWrite(@, SrOnes(@) \cup {"eop"})]
            /\ log' = log \o <<Rd("sr", security),
                                WrSr(security, SrOnes(sr[security]) \cup {"eop"})>>
            /\ UNCHANGED cr
       ELSE /\ cr' = [cr EXCEPT ![security].per = FALSE]
            /\ log' = log \o <<Rd("cr", security), WrCr(security, <<>>, {}, {"per"})>>
            /\ UNCHANGED sr
    /\ pc' = "lock"
    /\ UNCHANGED <<chip, dmaVars, keyst, ar, mem, argVars, srRead, idx, address, pending, result>>

----------------------------------------------------------------------------
(* erase_bank *)

\* Step 3, first modify: the mass-erase bit it clears
MerFirst(c, b) ==
    CASE c \in {"f3", "f4", "g0", "g4"} -> "mer1"
      [] OTHER -> IF b = "Bank2" THEN "mer2" ELSE "mer1"

ClearMer(r, f) == IF f = "mer1" THEN [r EXCEPT !.mer1 = FALSE] ELSE [r EXCEPT !.mer2 = FALSE]

EbMer ==
    /\ pc = "eb_mer"
    /\ cr' = [cr EXCEPT ![security] = ClearMer(@, MerFirst(chip, banks))]
    /\ log' = log \o <<Rd("cr", security),
                        WrCr(security, <<>>, {}, {MerFirst(chip, banks)})>>
    /\ pc' = CASE chip \in {"g0", "g4"} -> "eb_wait"
               [] chip \in {"f3", "f4"} -> "eb_start"
               [] OTHER -> IF banks = "Both" THEN "eb_mer2" ELSE "eb_start"
    /\ UNCHANGED <<chip, dmaVars, sr, keyst, ar, mem, argVars, srRead, idx, address, pending, result>>

\* BanksToErase::Both, second modify
EbMer2 ==
    /\ pc = "eb_mer2"
    /\ cr' = [cr EXCEPT ![security] = ClearMer(@, "mer2")]
    /\ log' = log \o <<Rd("cr", security), WrCr(security, <<>>, {}, {"mer2"})>>
    /\ pc' = "eb_start"
    /\ UNCHANGED <<chip, dmaVars, sr, keyst, ar, mem, argVars, srRead, idx, address, pending, result>>

EbStart ==
    /\ pc = "eb_start"
    /\ Start("eb_wait")

\* Mutant: erase_bank locks right after the start write.
EbWait_LockEarly ==
    /\ pc = "eb_wait"
    /\ pc' = "lock"
    /\ UNCHANGED <<chip, dmaVars, hwVars, argVars, srRead, idx, address, pending, result, log>>

\* Step 5
EbWait ==
    /\ pc = "eb_wait"
    /\ BusyWait("eb_wait", "lock")

----------------------------------------------------------------------------
(* write_page *)

AfterDword == IF idx < Len(data) THEN "wp_lo" ELSE "wp_pgclr"

\* Step 3: set PG; let mut address = page_to_address(page)
WpPg ==
    /\ pc = "wp_pg"
    /\ cr' = [cr EXCEPT ![security].pg = TRUE]
    /\ log' = log \o <<Rd("cr", security), WrCr(security, <<>>, {"pg"}, {})>>
    /\ address' = page_to_address(page)
    /\ pc' = AfterDword
    /\ UNCHANGED <<chip, dmaVars, sr, keyst, ar, mem, argVars, srRead, idx, pending, result>>

\* write_volatile(address, *dword as u32)
WpLo ==
    /\ pc = "wp_lo"
    /\ mem' = [mem EXCEPT ![address] = LowWord(data[idx + 1])]
    /\ log' = Append(log, WrMem(address, LowWord(data[idx + 1])))
    /\ pc' = "wp_hi"
    /\ UNCHANGED <<chip, dmaVars, cr, sr, keyst, ar, argVars, srRead, idx, address, pending, result>>

\* Mutant: the address advances by one word per double word.
WpHi_OneWord ==
    /\ pc = "wp_hi"
    /\ mem' = [mem EXCEPT ![address + 4] = HighWord(data[idx + 1])]
    /\ log' = Append(log, WrMem(address + 4, HighWord(data[idx + 1])))
    /\ sr' = [sr EXCEPT ![security].bsy = TRUE]
    /\ address' = address + 4
    /\ idx' = idx + 1
    /\ pc' = "wp_wait"
    /\ UNCHANGED <<chip, dmaVars, cr, keyst, ar, argVars, srRead, pending, result>>

\* write_volatile(address.add(1), (*dword >> 32) as u32); address = address.add(2)
\* The controller programs the double word and goes busy.
WpHi ==
    /\ pc = "wp_hi"
    /\ mem' = [mem EXCEPT ![address + 4] = HighWord(data[idx + 1])]
    /\ log' = Append(log, WrMem(address + 4, HighWord(data[idx + 1])))
    /\ sr' = [sr EXCEPT ![security].bsy = TRUE]
    /\ address' = address + 8
    /\ idx' = idx + 1
    /\ pc' = "wp_wait"
    /\ UNCHANGED <<chip, dmaVars, cr, keyst, ar, argVars, srRead, pending, result>>

\* Mutant: the loop goes on to the completion flag without polling busy.
WpWait_Skip ==
    /\ pc = "wp_wait"
    /\ pc' = "wp_eop"
    /\ UNCHANGED <<chip, dmaVars, hwVars, argVars, srRead, idx, address, pending, result, log>>

\* Step 5
WpWait ==
    /\ pc = "wp_wait"
    /\ BusyWait("wp_wait", "wp_eop")

\* Mutant: a double word after which EOP is not set fails the call.
WpEop_Strict ==
    /\ pc = "wp_eop"
    /\ log' = Append(log, Rd("sr", security))
    /\ pc' = IF sr[security].eop THEN "wp_eopclr" ELSE "wp_pgclr"
    /\ pending' = IF sr[security].eop THEN pending ELSE "Failure"
    /\ UNCHANGED <<chip, dmaVars, hwVars, argVars, srRead, idx, address, result>>

\* Step 6: if sr.read().eop().bit_is_set()
WpEop ==
    /\ pc = "wp_eop"
    /\ log' = Append(log, Rd("sr", security))
    /\ pc' = IF sr[security].eop THEN "wp_eopclr" ELSE AfterDword
    /\ UNCHANGED <<chip, dmaVars, hwVars, argVars, srRead, idx, address, pending, result>>

\* sr.modify(|_, w| w.eop().set_bit())
WpEopClr ==
    /\ pc = "wp_eopclr"
    /\ sr' = [sr EXCEPT ![security] = SrAfterWrite(@, SrOnes(@) \cup {"eop"})]
    /\ log' = log \o <<Rd("sr", security),
                        WrSr(security, SrOnes(sr[security]) \cup {"eop"})>>
    /\ pc' = AfterDword
    /\ UNCHANGED <<chip, dmaVars, cr, keyst, ar, mem, argVars, srRead, idx, address, pending, result>>

\* Mutant: step 7 is left out.
WpPgClr_Skip ==
    /\ pc = "wp_pgclr"
    /\ pc' = "lock"
    /\ UNCHANGED <<chip, dmaVars, hwVars, argVars, srRead, idx, address, pending, result, log>>

\* Step 7: cr.modify(|_, w| w.pg().clear_bit())
WpPgClr ==
    /\ pc = "wp_pgclr"
    /\ cr' = [cr EXCEPT ![security].pg = FALSE]
    /\ log' = log \o <<Rd("cr", security), WrCr(security, <<>>, {}, {"pg"})>>
    /\ pc' = "lock"
    /\ UNCHANGED <<chip, dmaVars, sr, keyst, ar, mem, argVars, srRead, idx, address, pending, result>>

----------------------------------------------------------------------------
(* read and read_to_buffer: plain loads from flash, one step each *)

\* core::ptr::read of a u64: the word at the address is the low half
ReadCell(m, a) == <<m[a + 4][1], m[a + 4][2], m[a][1], m[a][2]>>

\* core::ptr::read of a u8: byte b % 4 of the word that holds it
ReadByte(m, b) ==
    LET w == m[b - (b % 4)]
    IN CASE b % 4 = 0 -> w[2] % 256
         [] b % 4 = 1 -> w[2] \div 256
         [] b % 4 = 2 -> w[1] % 256
         [] OTHER     -> w[1] \div 256

\* Mutant: the offset counts 32-bit words.
CellAddr_Words(p, off) == page_to_address(p) + 4 * off

\* read: (page_to_address(page) as *const u64).offset(offset)
CellAddr(p, off) == page_to_address(p) + 8 * off

\* Mutant: the address advances with the index i of the element.
BuffAddr_Advance(p, off, i) == page_to_address(p) + off + i

\* read_to_buffer: (page_to_address(page) as *const u8).offset(offset), the
\* same for every element i of the buffer
BuffAddr(p, off, i) == page_to_address(p) + off

\* Mutant: read checks the busy flag before the load.
ReadLog_BusyCheck(p, off) == <<Rd("sr", "NonSecure"), RdMem(CellAddr(p, off), 8)>>

\* The accesses of read
ReadLog(p, off) == <<RdMem(CellAddr(p, off), 8)>>

\* Cell offsets and byte offsets the reads are made with.
ReadOffsets == 0..(MaxData - 1)
ByteOffsets == 0..(2 * MaxBuff + 1)

\* What a call that takes no Security argument and runs in one step leaves
\* in the bookkeeping of the calls.
Direct(o, p, off) ==
    /\ pc = "idle"
    /\ calls < MaxCalls
    /\ op' = o
    /\ page' = p
    /\ offset' = off
    /\ banks' = "Bank1"
    /\ data' = <<>>
    /\ security' = "NonSecure"
    /\ cr0' = cr["NonSecure"]
    /\ sr0' = sr["NonSecure"]
    /\ mem0' = mem
    /\ calls' = calls + 1
    /\ srRead' = CleanSr
    /\ idx' = 0
    /\ address' = 0
    /\ pending' = "Ok"
    /\ pc' = "idle"
    /\ UNCHANGED <<chip, dmaVars, hwVars>>

CallRead(p, off) ==
    /\ Direct("read", p, off)
    /\ value' = ReadCell(mem, CellAddr(p, off))
    /\ log' = ReadLog(p, off)
    /\ buff' = <<>>
    /\ result' = "Value"

CallReadToBuffer(p, off, n) ==
    /\ Direct("read_to_buffer", p, off)
    /\ buff' = [i \in 1..n |-> ReadByte(mem, BuffAddr(p, off, i - 1))]
    /\ log' = [i \in 1..n |-> RdMem(BuffAddr(p, off, i - 1), 1)]
    /\ value' = <<>>
    /\ result' = "Unit"

----------------------------------------------------------------------------
(* The controller finishes the running operation: BSY and the start bit    *)
(* are cleared, EOP may be set, an error flag may be raised.  The driver   *)
(* sees the controller only through its reads of the status register of   *)
(* the selected register set, so the step is taken right before such a    *)
(* read (the busy check and the busy-waits); taken earlier, in the call   *)
(* or between calls, it gives the same reads.  The outcome of an          *)
(* operation the driver did not start (busy at entry) is not modelled: it *)
(* only ends.                                                              *)

\* The flag a failing erase or program raises: the area is write-protected
\* (f4: the only error flag the source names).
HwRaised(c) ==
    CASE c = "f3" -> "wrprterr"
      [] c = "f4" -> "pgaerr"
      [] OTHER    -> "wrperr"

\* Outcomes of an operation: EOP set on success, the error flag raised on
\* failure, or neither flag.
HwOutcomes(c) ==
    {[eop |-> e, errs |-> {}] : e \in BOOLEAN}
      \cup {[eop |-> FALSE, errs |-> {HwRaised(c)}]}

HwDone(d, out) ==
    /\ sr[d].bsy
    /\ out \in HwOutcomes(chip)
    /\ d = security
    /\ \/ pc = "busychk" /\ out = [eop |-> FALSE, errs |-> {}]
       \/ pc \in {"ep_wait", "eb_wait", "wp_wait"}
    /\ sr' = [sr EXCEPT ![d] = [bsy |-> FALSE, eop |-> @.eop \/ out.eop,
                                errs |-> @.errs \cup out.errs]]
    /\ cr' = [cr EXCEPT ![d].strt = FALSE]
    /\ UNCHANGED <<chip, dmaVars, keyst, ar, mem, pc, argVars, srRead, idx, address, pending,
                   result, log>>

----------------------------------------------------------------------------
Next ==
    \/ \E sec \in Security : CallUnlock(sec)
    \/ \E sec \in Security : CallLock(sec)
    \/ \E p \in Pages, sec \in Security : CallErasePage(p, sec)
    \/ \E b \in BanksToErase, sec \in Security : CallEraseBank(b, sec)
    \/ \E p \in WritePages, n \in WriteLens, sec \in Security : CallWritePage(p, n, sec)
    \/ UnlockKey1
    \/ UnlockKey2
    \/ UnlockReadLock
    \/ Lock
    \/ BusyCheck
    \/ CheckIllegal
    \/ EpSelect
    \/ EpAr
    \/ EpStart
    \/ EpWait
    \/ EpClear
    \/ EbMer
    \/ EbMer2
    \/ EbStart
    \/ EbWait
    \/ WpPg
    \/ WpLo
    \/ WpHi
    \/ WpWait
    \/ WpEop
    \/ WpEopClr
    \/ WpPgClr
    \/ \E d \in Security, out \in UNION {HwOutcomes(c) : c \in Chips} : HwDone(d, out)

Spec == Init /\ [][Next]_vars

----------------------------------------------------------------------------
(* The page sweep: one call of erase_page, or of write_page with an empty  *)
(* slice, for every page index up to one past the first index the          *)
(* dual-bank builds reject, on a controller that is idle and has no error  *)
(* flag set.                                                                *)

SweepPages == 0..(2 * BANK_SPLIT + 1)

PagesInit ==
    /\ Init
    /\ sr = [d \in Security |-> CleanSr]

SweepErasePage ==
    /\ calls = 0
    /\ pc = "idle"
    /\ \E p \in SweepPages, sec \in Security : CallErasePage(p, sec)

SweepWritePage ==
    /\ calls = 0
    /\ pc = "idle"
    /\ \E p \in SweepPages, sec \in Security : CallWritePage(p, 0, sec)

PagesNext ==
    \/ SweepErasePage
    \/ SweepWritePage
    \/ UnlockKey1
    \/ UnlockKey2
    \/ UnlockReadLock
    \/ Lock
    \/ BusyCheck
    \/ CheckIllegal
    \/ EpSelect
    \/ EpAr
    \/ EpStart
    \/ EpWait
    \/ EpClear
    \/ WpPg
    \/ WpPgClr
    \/ \E d \in Security, out \in UNION {HwOutcomes(c) : c \in Chips} : HwDone(d, out)

PagesSpec == PagesInit /\ [][PagesNext]_vars

----------------------------------------------------------------------------
(* Reads: one write_page or one unlock, then read and read_to_buffer. *)

FirstWritePage ==
    /\ calls = 0
    /\ pc = "idle"
    /\ \E p \in WritePages, n \in 0..MaxData, sec \in Security : CallWritePage(p, n, sec)

FirstUnlock ==
    /\ calls = 0
    /\ pc = "idle"
    /\ \E sec \in Security : CallUnlock(sec)

ReadNext ==
    \/ FirstWritePage
    \/ FirstUnlock
    \/ \E p \in WritePages, off \in ReadOffsets : CallRead(p, off)
    \/ \E p \in WritePages, off \in ByteOffsets, n \in 0..MaxBuff : CallReadToBuffer(p, off, n)
    \/ UnlockKey1
    \/ UnlockKey2
    \/ UnlockReadLock
    \/ Lock
    \/ BusyCheck
    \/ CheckIllegal
    \/ WpPg
    \/ WpLo
    \/ WpHi
    \/ WpWait
    \/ WpEop
    \/ WpEopClr
    \/ WpPgClr
    \/ \E d \in Security, out \in UNION {HwOutcomes(c) : c \in Chips} : HwDone(d, out)

ReadSpec == Init /\ [][ReadNext]_vars

----------------------------------------------------------------------------
(* Progress: one call of erase_page, erase_bank or write_page on a core    *)
(* that keeps executing and a controller that finishes what it was given.  *)

FirstErasePage ==
    /\ calls = 0
    /\ pc = "idle"
    /\ \E p \in Pages, sec \in Security : CallErasePage(p, sec)

FirstEraseBank ==
    /\ calls = 0
    /\ pc = "idle"
    /\ \E b \in BanksToErase, sec \in Security : CallEraseBank(b, sec)

\* The steps of the running call.  The driver runs with nothing that could
\* pre-empt it for good: a step that is possible is eventually taken.
Driver ==
    \/ UnlockKey1
    \/ UnlockKey2
    \/ UnlockReadLock
    \/ Lock
    \/ BusyCheck
    \/ CheckIllegal
    \/ EpSelect
    \/ EpAr
    \/ EpStart
    \/ EpWait
    \/ EpClear
    \/ EbMer
    \/ EbMer2
    \/ EbStart
    \/ EbWait
    \/ WpPg
    \/ WpLo
    \/ WpHi
    \/ WpWait
    \/ WpEop
    \/ WpEopClr
    \/ WpPgClr

\* The controller ends the operation it is busy with.
HwFinish == \E d \in Security, out \in UNION {HwOutcomes(c) : c \in Chips} : HwDone(d, out)

FairNext ==
    \/ FirstErasePage
    \/ FirstEraseBank
    \/ FirstWritePage
    \/ Driver
    \/ HwFinish

\* Without the fairness conjuncts the call may stay in a busy-wait for ever.
FairSpec == Init /\ [][FairNext]_vars /\ WF_vars(Driver) /\ WF_vars(HwFinish)

----------------------------------------------------------------------------
(* Long writes: one write_page whose data fills the page exactly, or is    *)
(* one double word longer, on a controller that is idle, has no error flag *)
(* set and ends every programming operation without raising a flag.        *)

LongLens == {PAGE_SIZE \div 8, PAGE_SIZE \div 8 + 1}

LongWritePage ==
    /\ calls = 0
    /\ pc = "idle"
    /\ \E n \in LongLens, sec \in Security : CallWritePage(0, n, sec)

\* The controller ends the programming of a double word, no flag raised.
HwQuiet == HwDone(security, [eop |-> FALSE, errs |-> {}])

LongNext ==
    \/ LongWritePage
    \/ UnlockKey1
    \/ UnlockKey2
    \/ UnlockReadLock
    \/ Lock
    \/ BusyCheck
    \/ CheckIllegal
    \/ WpPg
    \/ WpLo
    \/ WpHi
    \/ WpWait
    \/ WpEop
    \/ WpPgClr
    \/ HwQuiet

LongSpec == PagesInit /\ [][LongNext]_vars

----------------------------------------------------------------------------
(* The DMA driver src/src/dma.rs: cfg_channel and stop.  Every register    *)
(* access of cfg_channel is one step, so that the controller can move data *)
(* or stop a channel between two accesses.                                  *)

\* One register write of a Dma call: the register (of channel ch), the
\* fields the closure names, and the channel's EN bit as the write found it.
DmaEv(reg, ch, fields) == [reg |-> reg, ch |-> ch, fields |-> fields, en |-> dch[ch].en]

\* A write to DMA_CCRx: "The register fields/bits MEM2MEM, PL[1:0],
\* MSIZE[1:0], PSIZE[1:0], MINC, PINC, and DIR are read-only when EN = 1".
CcrAfterWrite(r, w) ==
    IF r.en
    THEN [r EXCEPT !.en = w.en, !.circ = w.circ]
    ELSE [r EXCEPT !.en = w.en, !.circ = w.circ, !.mem2mem = w.mem2mem,
                   !.pl = w.pl, !.dir = w.dir, !.pinc = w.pinc, !.minc = w.minc,
                   !.psize = w.psize, !.msize = w.msize]

\* The CCR fields cfg_channel was asked for.
Requested(a) ==
    [pl |-> PriorityBits(a.priority), dir |-> DirectionBit(a.direction),
     circ |-> EnabledBit(a.circular), pinc |-> EnabledBit(a.periph_incr),
     minc |-> EnabledBit(a.mem_incr), psize |-> DataSizeBits(a.periph_size),
     msize |-> DataSizeBits(a.mem_size)]

ConfigFields == {"pl", "dir", "circ", "pinc", "minc", "psize", "msize"}

\* The value the last modify of set_ccr! writes: what it read, with the
\* configuration fields and EN replaced.
CcrConfigured(r, a) ==
    [r EXCEPT !.pl = PriorityBits(a.priority), !.dir = DirectionBit(a.direction),
              !.circ = EnabledBit(a.circular), !.pinc = EnabledBit(a.periph_incr),
              !.minc = EnabledBit(a.mem_incr), !.psize = DataSizeBits(a.periph_size),
              !.msize = DataSizeBits(a.mem_size), !.en = TRUE]

DmaCall(o, a, first) ==
    /\ dpc = "idle"
    /\ dcalls < MaxCalls
    /\ dop' = o
    /\ darg' = a
    /\ dcalls' = dcalls + 1
    /\ dpc' = first

\* cfg_channel(channel, periph_reg, mem_addr, num_data, priority, ...)
CallCfgChannel(ch, t, c) ==
    /\ DmaCall("cfg_channel", [channel |-> ch] @@ t @@ c, "cpar")
    /\ dlog' = <<>>
    /\ UNCHANGED <<chip, flashVars, dch>>

\* A write to DMA_CPARx, DMA_CMARx or DMA_CNDTRx of a channel whose EN bit is
\* set is not one the procedure allows: the register may or may not take the
\* value.
AddrWrite(reg, fields, next, written) ==
    /\ \E taken \in BOOLEAN :
          dch' = [dch EXCEPT ![darg.channel] =
                     IF dch[darg.channel].en /\ ~taken THEN @ ELSE written]
    /\ dlog' = Append(dlog, DmaEv(reg, darg.channel, fields))
    /\ dpc' = next
    /\ UNCHANGED <<chip, flashVars, dop, darg, dcalls>>

\* Step 1: cpar.write(|w| w.bits(periph_reg))
CfgCpar ==
    /\ dpc = "cpar"
    /\ AddrWrite("cpar", {"pa"}, "cmar",
                 [dch[darg.channel] EXCEPT !.par = darg.periph_reg])

\* Step 2: cmar.write(|w| w.bits(mem_addr))
CfgCmar ==
    /\ dpc = "cmar"
    /\ AddrWrite("cmar", {"ma"}, "cndtr",
                 [dch[darg.channel] EXCEPT !.mar = darg.mem_addr])

\* Step 3: cndtr.write(|w| w.ndt().bits(num_data))
CfgCndtr ==
    /\ dpc = "cndtr"
    /\ AddrWrite("cndtr", {"ndt"}, "en_clear",
                 [dch[darg.channel] EXCEPT !.ndt = darg.num_data])

\* Mutant: the channel is not disabled before it is configured.
SetCcrEnClear_Skip ==
    /\ dpc = "en_clear"
    /\ dpc' = IF EnabledBit(darg.circular) THEN "mem2mem" ELSE "ccr"
    /\ UNCHANGED <<chip, flashVars, dch, dop, darg, dlog, dcalls>>

\* set_ccr!: $ccr.modify(|_, w| w.en().clear_bit())
SetCcrEnClear ==
    /\ dpc = "en_clear"
    /\ dch' = [dch EXCEPT ![darg.channel] = CcrAfterWrite(@, [@ EXCEPT !.en = FALSE])]
    /\ dlog' = Append(dlog, DmaEv("ccr", darg.channel, {"en"}))
    /\ dpc' = IF EnabledBit(darg.circular) THEN "mem2mem" ELSE "ccr"
    /\ UNCHANGED <<chip, flashVars, dop, darg, dcalls>>

\* set_ccr!: if let Circular::Enabled = $circular { $ccr.modify(|_, w| w.mem2mem().clear_bit()) }
SetCcrMem2Mem ==
    /\ dpc = "mem2mem"
    /\ dch' = [dch EXCEPT ![darg.channel] = CcrAfterWrite(@, [@ EXCEPT !.mem2mem = FALSE])]
    /\ dlog' = Append(dlog, DmaEv("ccr", darg.channel, {"mem2mem"}))
    /\ dpc' = "ccr"
    /\ UNCHANGED <<chip, flashVars, dop, darg, dcalls>>

\* set_ccr!: the modify that writes priority, direction, circular mode,
\* increment modes and data sizes and sets EN; cfg_channel returns
SetCcrConfig ==
    /\ dpc = "ccr"
    /\ dch' = [dch EXCEPT ![darg.channel] = CcrAfterWrite(@, CcrConfigured(@, darg))]
    /\ dlog' = Append(dlog, DmaEv("ccr", darg.channel, ConfigFields \cup {"en"}))
    /\ dpc' = "idle"
    /\ UNCHANGED <<chip, flashVars, dop, darg, dcalls>>

\* stop: ccr.modify(|_, w| w.en().clear_bit()) on the CCR of `channel`
StopWrite(d, ch) == [d EXCEPT ![ch] = CcrAfterWrite(@, [@ EXCEPT !.en = FALSE])]

\* stop(channel): one register access
CallStop(ch) ==
    /\ DmaCall("stop", [NoDmaArg EXCEPT !.channel = ch], "idle")
    /\ dch' = StopWrite(dch, ch)
    /\ dlog' = <<DmaEv("ccr", ch, {"en"})>>
    /\ UNCHANGED <<chip, flashVars>>

\* The controller moves one item of an enabled channel that has data left.
HwDmaTransfer(ch) ==
    /\ dch[ch].en
    /\ dch[ch].ndt > 0
    /\ dch' = [dch EXCEPT ![ch].ndt = @ - 1]
    /\ UNCHANGED <<chip, flashVars, dpc, dop, darg, dlog, dcalls>>

\* "When a channel transfer error occurs, the EN bit of the DMA_CCRx register
\* is cleared by hardware."
HwDmaError(ch) ==
    /\ dch[ch].en
    /\ dch' = [dch EXCEPT ![ch].en = FALSE]
    /\ UNCHANGED <<chip, flashVars, dpc, dop, darg, dlog, dcalls>>

\* The builds dma.rs tells apart: `feature = "f3"` and the others.
DmaChips == {"f3", "l4"}

\* Dma::new: the controller is reset (rcc_en_reset!), except on f3, which has
\* no DMA reset: there a channel may be enabled, or in memory-to-memory
\* mode, from before.
DmaInit ==
    /\ FlashInit
    /\ chip \in DmaChips
    /\ sr = [d \in Security |-> CleanSr]
    /\ DmaIdle
    /\ IF chip = "f3"
       THEN \E e \in BOOLEAN, m \in BOOLEAN :
               dch = [c \in DmaChannel |-> [ResetCh EXCEPT !.en = e, !.mem2mem = m]]
       ELSE dch = [c \in DmaChannel |-> ResetCh]

DmaNext ==
    \/ \E ch \in CfgChannels, t \in DmaTransfers, c \in DmaSettings : CallCfgChannel(ch, t, c)
    \/ \E ch \in CfgChannels : CallStop(ch)
    \/ CfgCpar
    \/ CfgCmar
    \/ CfgCndtr
    \/ SetCcrEnClear
    \/ SetCcrMem2Mem
    \/ SetCcrConfig
    \/ \E ch \in CfgChannels : HwDmaTransfer(ch)
    \/ \E ch \in CfgChannels : HwDmaError(ch)

DmaSpec == DmaInit /\ [][DmaNext]_vars

----------------------------------------------------------------------------
(* Properties *)

Mutating == {"erase_page", "erase_bank", "write_page"}

\* The last call has returned.
Returned(o) == pc = "idle" /\ op = o

\* The call got past unlock and made its busy check.
BusyChecked == \E i \in 1..Len(log) : log[i] = Rd("sr", security)

\* C1: whenever erase_page, erase_bank or write_page returns, with any
\* result, the lock bit of the controller is set.
C1_LockedOnEveryReturn ==
    (pc = "idle" /\ op \in Mutating) => cr[security].lock

\* C2: an erase_page with page >= 2 * BANK_SPLIT that returns PageOutOfRange
\* has made no register write (no key write, no control-register write) and
\* has left the lock bit as it was.  (The claim also says that every such
\* call returns PageOutOfRange; only the part about the writes is stated.)
C2_OutOfRangeWritesNothing ==
    (Returned("erase_page") /\ page >= 2 * BANK_SPLIT /\ result = "PageOutOfRange")
        => /\ Writes(log) = {}
           /\ cr[security].lock = cr0.lock

\* C3: a write_page with an out-of-range page (page >= 2 * BANK_SPLIT) is
\* rejected with PageOutOfRange before the key sequence: it makes no key
\* write, no program-enable write and no write to flash memory.  Stated for
\* the calls that no other check rejects (the keys are accepted, the
\* controller is idle and has no error flag set) and that have data to
\* write.
C3_OutOfRangeWriteRejected ==
    (/\ Returned("write_page") /\ page >= 2 * BANK_SPLIT /\ data # <<>>
     /\ BusyChecked /\ ~srRead.bsy /\ srRead.errs = {})
        => /\ result = "PageOutOfRange"
           /\ Writes(log) = {}
           /\ mem = mem0

\* C4: when the busy check of erase_page, erase_bank or write_page reads the
\* busy flag set (the unlock has succeeded), the call returns Busy and the
\* lock bit is set when it returns.  "Busy at entry" is the value the call
\* reads: the local `sr`.
C4_BusyAtEntry ==
    (pc = "idle" /\ op \in Mutating /\ srRead.bsy)
        => result = "Busy" /\ cr[security].lock

C4_Witness ==
    /\ Returned("erase_bank") /\ sr0.bsy /\ srRead.bsy
    /\ result = "Busy" /\ cr[security].lock

C5_Flags(c, sec) ==
    CASE c = "f3" -> {"pgerr", "wrprterr"}
      [] c = "f4" -> {"pgaerr"}
      [] c = "l5" /\ sec = "NonSecure" -> {"pgaerr", "pgserr", "progerr", "wrperr"}
      [] OTHER -> {"pgaerr", "progerr", "wrperr"}

C7_UnlockKeys ==
    Returned("unlock")
        => /\ log = <<WrKey(security, <<17767, 291>>),
                      WrKey(security, <<52719, 35243>>),
                      Rd("cr", security)>>
           /\ result = IF cr[security].lock THEN "Failure" ELSE "Ok"

C7_Witness == Returned("unlock") /\ result = "Ok" /\ cr0.lock

\* C8: lock sets the lock bit from any state of the control register and
\* changes no other field of it; so a lock of a locked controller changes
\* nothing (lock; lock = lock), and a lock after a successful unlock leaves
\* the lock bit set.
C8_LockSetsLockOnly ==
    Returned("lock") => cr[security] = [cr0 EXCEPT !.lock = TRUE]

C8_Witness == Returned("lock") /\ ~cr0.lock /\ cr[security].lock

\* C9: write_page returns with the program-enable bit clear and the lock bit
\* set, whatever its result, page and data.
C9_WritePageEndsClean ==
    Returned("write_page") => ~cr[security].pg /\ cr[security].lock

C9_Witness ==
    Returned("write_page") /\ result = "Ok" /\ Len(data) = MaxData /\ mem # mem0

\* C10: when erase_page, erase_bank or write_page returns, none of the
\* page-erase, mass-erase and program enable bits is set.
C10_NoEnableBitLeft ==
    (pc = "idle" /\ op \in Mutating)
        => LET c == cr[security] IN ~c.per /\ ~c.mer1 /\ ~c.mer2 /\ ~c.pg

\* C11: a call of erase_page, erase_bank or write_page makes its register
\* accesses in the fixed order: the first access is the first key write of
\* unlock; every command write (enable bit, page or address, start) comes
\* after the status reads of the busy check and of the error check, which
\* both passed; and, once the unlock has succeeded, the last access of the
\* call is the lock write.
C11_FixedOrder ==
    (op \in Mutating /\ log # <<>>)
        => /\ log[1] = WrKey(security, <<17767, 291>>)
           /\ \A i \in CommandWrites(log) :
                 /\ i > 5
                 /\ log[4] = Rd("sr", security) /\ log[5] = Rd("sr", security)
                 /\ ~srRead.bsy /\ pending \notin {"Busy", "Illegal"}
           /\ (pc = "idle" /\ result # "Failure")
                 => log[Len(log)] = WrCr(security, <<>>, {"lock"}, {})

\* The part of C11 that does not concern the lock write.
C11_ChecksBeforeCommand ==
    (op \in Mutating /\ log # <<>>)
        => /\ log[1] = WrKey(security, <<17767, 291>>)
           /\ \A i \in CommandWrites(log) :
                 /\ i > 5
                 /\ log[4] = Rd("sr", security) /\ log[5] = Rd("sr", security)
                 /\ ~srRead.bsy /\ pending \notin {"Busy", "Illegal"}

\* The bank and the page within the bank of a page index below 2 * BANK_SPLIT.
C12_Bank(p) == IF p < 256 THEN 0 ELSE 1
C12_PageInBank(p) == IF p < 256 THEN p ELSE p - 256

\* The control-register writes of the log that set the page-erase enable bit.
C12_SelectWrites(l) == {i \in Writes(l) : l[i].reg = "cr" /\ "per" \in l[i].set}

MemWriteSeq(l) == SelectSeq(l, LAMBDA e : e.k = "W" /\ e.reg = "mem")

\* C14: a write_page(page, data) that returns Ok has written to flash, for
\* i = 0, 1, ... in this order, the low 32 bits of data[i] at
\* 0x0800_0000 + page * 2048 + 8 * i and then the high 32 bits of data[i] at
\* that address + 4, and has made no other write to flash.
C14_WriteOrder ==
    (Returned("write_page") /\ result = "Ok")
        => LET w == MemWriteSeq(log)
               base == 134217728 + page * 2048
           IN /\ Len(w) = 2 * Len(data)
              /\ \A i \in 1..Len(data) :
                    /\ w[2 * i - 1] = WrMem(base + 8 * (i - 1), <<data[i][3], data[i][4]>>)
                    /\ w[2 * i] = WrMem(base + 8 * (i - 1) + 4, <<data[i][1], data[i][2]>>)

C14_Witness ==
    /\ Returned("write_page") /\ result = "Ok" /\ page = 0 /\ Len(data) = MaxData
    /\ Len(MemWriteSeq(log)) = 2 * MaxData
    /\ mem[134217728] = <<21862, 30600>> /\ mem[134217732] = <<4386, 13124>>

\* The controller raised no error flag during the call: none is set and
\* none was written back by a modify of the status register.
C15_NoError ==
    /\ sr[security].errs = {}
    /\ \A i \in Writes(log) : log[i].reg = "sr" => log[i].set \subseteq {"eop"}

\* C15: round trip.  After a write_page(page, data) that returned Ok, on
\* flash that was erased when the call began and with no error flag raised
\* by the controller during the call, read(page, i) returns data[i] for
\* every i < len(data): the offset of read counts 64-bit cells from the
\* start of the page.  (What a programming operation that fails leaves in
\* flash is not modelled.)
C15_RoundTrip ==
    [][(/\ Returned("write_page") /\ result = "Ok"
        /\ C15_NoError
        /\ \A a \in MemAddrs : mem0[a] = <<65535, 65535>>
        /\ op' = "read" /\ page' = page /\ offset' < Len(data))
           => value' = data[offset' + 1]]_vars

C15_Witness ==
    /\ Returned("read") /\ page = 0 /\ offset = 1
    /\ value = <<4387, 13124, 21862, 30601>>

\* C19: read(page, offset) is one load of 8 bytes at
\* 0x0800_0000 + page * 2048 + 8 * offset and nothing else: no access to a
\* key, control or status register, no change of the registers (lock, busy
\* and error state) or of flash; the value returned is the content of
\* flash at that address, whatever the lock bit is.
C19_ReadProtocolFree ==
    [][(op' = "read" /\ calls' = calls + 1)
           => LET a == 134217728 + page' * 2048 + 8 * offset'
              IN /\ log' = <<Ev("R", "mem", "NonSecure", a, <<8>>, {}, {})>>
                 /\ UNCHANGED <<cr, sr, keyst, ar, mem>>
                 /\ value' = <<mem[a + 4][1], mem[a + 4][2], mem[a][1], mem[a][2]>>]_vars

C19_Witness ==
    /\ Returned("read") /\ result = "Value" /\ ~cr["NonSecure"].lock
    /\ value = <<65535, 65535, 65535, 65535>>

\* C20: read_to_buffer(page, offset, buff) makes exactly len(buff) loads
\* of one byte, all of them at 0x0800_0000 + page * 2048 + offset, and every
\* element of the buffer is the byte of flash at that address.
C20_SameAddress ==
    Returned("read_to_buffer")
        => LET a == 134217728 + page * 2048 + offset
           IN /\ Len(log) = Len(buff)
              /\ \A i \in 1..Len(buff) :
                    /\ log[i] = Ev("R", "mem", "NonSecure", a, <<1>>, {}, {})
                    /\ buff[i] = ReadByte(mem, a)

C20_Witness ==
    /\ Returned("read_to_buffer") /\ page = 0 /\ offset = 0 /\ Len(buff) = MaxBuff
    /\ buff[1] = 136 /\ buff[MaxBuff] = 136
    /\ ReadByte(mem, 134217729) = 119

\* The control-register writes of a log that touch a mass-erase enable bit,
\* in order.
MerWriteSeq(l) ==
    SelectSeq(l, LAMBDA e : /\ e.k = "W" /\ e.reg = "cr"
                            /\ (e.set \cup e.clr) \cap {"mer1", "mer2"} # {})

\* C16: on the builds whose control register has one mass-erase enable bit
\* per bank (the source names MER1 on g4, MER1 and MER2 on the default build
\* and on l5), an erase_bank that runs its command writes the enable bits
\* its argument selects, one register write per bit: Bank1 one write of
\* MER1 only, Bank2 one write of MER2 only, Both a write of MER1 and then a
\* separate write of MER2.  (Which value the writes give the bit is not part
\* of this statement.)
C16_OneWritePerBank ==
    (Returned("erase_bank") /\ result = "Ok" /\ chip \in {"g4", "l4", "l5"})
        => LET w == MerWriteSeq(log)
               bits(i) == w[i].set \cup w[i].clr
           IN CASE banks = "Bank1" -> Len(w) = 1 /\ bits(1) = {"mer1"}
                [] banks = "Bank2" -> Len(w) = 1 /\ bits(1) = {"mer2"}
                [] OTHER -> Len(w) = 2 /\ bits(1) = {"mer1"} /\ bits(2) = {"mer2"}

\* C16 on the default build and on l5 only.
C16_OneWritePerBankL4L5 ==
    (Returned("erase_bank") /\ result = "Ok" /\ chip \in {"l4", "l5"})
        => LET w == MerWriteSeq(log)
               bits(i) == w[i].set \cup w[i].clr
           IN CASE banks = "Bank1" -> Len(w) = 1 /\ bits(1) = {"mer1"}
                [] banks = "Bank2" -> Len(w) = 1 /\ bits(1) = {"mer2"}
                [] OTHER -> Len(w) = 2 /\ bits(1) = {"mer1"} /\ bits(2) = {"mer2"}

\* C17: a call made with register set D touches D only.  No step changes
\* the control register, the status register or the key sequencer of the
\* set the running call was not made with, and when the call returns every
\* key, control and status access in its log is an access to D.
C17_DomainIsolation ==
    [][/\ \A d \in Security \ {security'} :
             cr'[d] = cr[d] /\ sr'[d] = sr[d] /\ keyst'[d] = keyst[d]
       /\ pc' = "idle" =>
             \A i \in 1..Len(log') :
                log'[i].reg \in {"keyr", "cr", "sr"} => log'[i].dom = security']_vars

C17_Witness ==
    /\ chip = "l5" /\ Returned("write_page") /\ security = "Secure" /\ result = "Ok"
    /\ Len(data) > 0 /\ ~cr["NonSecure"].lock /\ cr["Secure"].lock

\* C18: on l5 the error check is the same in both register sets: a call
\* that found the controller idle returns Illegal exactly when the
\* program-alignment, programming-sequence, programming or write-protection
\* flag of its register set was set, whether it was made with NonSecure or
\* with Secure.
C18_SameCheckBothDomains ==
    (chip = "l5" /\ pc = "idle" /\ op \in Mutating /\ BusyChecked /\ ~srRead.bsy)
        => (result = "Illegal")
              = (srRead.errs \cap {"pgaerr", "pgserr", "progerr", "wrperr"} # {})

\* C18 for the calls made with NonSecure only.
C18_NonSecureCheck ==
    (/\ chip = "l5" /\ pc = "idle" /\ op \in Mutating /\ BusyChecked /\ ~srRead.bsy
     /\ security = "NonSecure")
        => (result = "Illegal")
              = (srRead.errs \cap {"pgaerr", "pgserr", "progerr", "wrperr"} # {})

----------------------------------------------------------------------------
(* C21: page indices outside the range and the page-number field *)

\* The page-number writes of the log: the control-register write that names a
\* page number and, on f3, the FLASH_AR write.
C21_PageWrites(l) ==
    {i \in Writes(l) : \/ l[i].reg = "ar"
                       \/ l[i].reg = "cr" /\ "per" \in l[i].set /\ l[i].val # <<>>}

\* C21 (as stated): on every build, whatever erase_page writes into the
\* page-number field is the bank-local index of the requested page: no
\* requested index reaches the register as the number of another page.
C21_NoTruncation ==
    (op = "erase_page")
        => \A i \in C21_PageWrites(log) :
              log[i].val = <<IF chip \in {"l4", "l5"} THEN C12_PageInBank(page)
                             ELSE page>>

\* What the dual-bank builds do guarantee: an index past the second bank
\* writes no page number, and an index inside is written bank-local.
C21_DualBankInRange ==
    (op = "erase_page" /\ chip \in {"l4", "l5"})
        => \A i \in C21_PageWrites(log) :
              /\ page < 2 * BANK_SPLIT
              /\ log[i].val = <<page % BANK_SPLIT>>

----------------------------------------------------------------------------
(* C22: no check and no command is repeated inside a call *)

StartWrites(l) == {i \in Writes(l) : l[i].reg = "cr" /\ "strt" \in l[i].set}

\* The accesses of a call up to the lock-bit read of unlock, and the lock step.
UnlockLog(sec) == <<WrKey(sec, FLASH_KEY1), WrKey(sec, FLASH_KEY2), Rd("cr", sec)>>
LockLog(sec) == <<Rd("cr", sec), WrCr(sec, <<>>, {"lock"}, {})>>

\* C22: in one call of erase_page, erase_bank or write_page the two keys are
\* written once, as the first two accesses; the status register is read at
\* most twice (busy check, error check) before the first control-register
\* access; the start bit is written at most once; and a call that returns
\* Failure, Busy or Illegal has made exactly the accesses up to the check that
\* failed (followed by the lock step for Busy and Illegal): nothing was
\* tried again.  A busy status at the entry check always ends in Busy.
C22_NoRetry ==
    (op \in Mutating)
        => /\ KeyWrites(log) \subseteq {1, 2}
           /\ Cardinality(StartWrites(log)) <= 1
           /\ \A i \in 4..Len(log) :
                 (\A j \in 4..i : log[j] = Rd("sr", security)) => i <= 5
           /\ pc = "idle" =>
                 /\ SubSeq(log, 1, 3) = UnlockLog(security)
                 /\ (result = "Failure") = (Len(log) = 3)
                 /\ result = "Busy" =>
                       log = UnlockLog(security) \o <<Rd("sr", security)>>
                                 \o LockLog(security)
                 /\ result = "Illegal" =>
                       log = UnlockLog(security)
                                 \o <<Rd("sr", security), Rd("sr", security)>>
                                 \o LockLog(security)
                 /\ (Len(log) >= 4 /\ srRead.bsy) => result = "Busy"

C22_Witness ==
    /\ Returned("erase_bank") /\ result = "Illegal" /\ Len(log) = 7
    /\ calls = MaxCalls

----------------------------------------------------------------------------
(* C23: the busy-wait and termination *)

WaitPcs == {"ep_wait", "eb_wait", "wp_wait"}

\* The busy-wait has no timeout: while the controller is busy no step leaves
\* the wait, whatever the number of polls.
C23_WaitHasNoTimeout ==
    [][(pc \in WaitPcs /\ sr[security].bsy) => pc' = pc]_vars

\* With a controller that eventually finishes, every call returns.
C23_Returns == (pc # "idle") ~> (pc = "idle")

\* C23 (as stated): with a controller that eventually clears busy, every call
\* of erase_page, erase_bank or write_page eventually returns, and it returns
\* with the controller locked.
C23_ReturnsLocked ==
    (pc # "idle" /\ op \in Mutating) ~> (pc = "idle" /\ cr[security].lock)

----------------------------------------------------------------------------
(* C24: the lock bit still set after the key sequence *)

\* C24: a call of erase_page, erase_bank or write_page that returns Failure
\* has made the two key writes and the read of the lock bit and nothing else
\* (no status read, no control-register write, no write to flash), and the
\* lock bit is set when it returns.
C24_FailureImmediately ==
    (pc = "idle" /\ op \in Mutating /\ result = "Failure")
        => /\ log = UnlockLog(security)
           /\ cr[security].lock
           /\ sr[security] = sr0
           /\ mem = mem0

C24_Witness ==
    /\ Returned("write_page") /\ result = "Failure" /\ Len(data) > 0
    /\ cr0.lock

----------------------------------------------------------------------------
(* C25: erase_page: select, then start, then wait *)

\* C25: in erase_page the start bit is written only after the write that sets
\* the page-erase enable together with the page number (and the bank select
\* where the branch has one; on f3 after the FLASH_AR write as well); the
\* access that follows the start write is a read of the status register; and
\* a call that returns Ok has written the start bit and returns with the busy
\* flag and the start bit clear.
C25_StartAfterSelect ==
    (op = "erase_page")
        => /\ \A i \in StartWrites(log) :
                 /\ \E j \in C12_SelectWrites(log) :
                       /\ j < i
                       /\ log[j] = PageSelectEv(chip, security, page)
                       /\ chip = "f3" => \E k \in (j + 1)..(i - 1) : log[k] = WrAr(page)
                 /\ Len(log) > i => log[i + 1] = Rd("sr", security)
           /\ (pc = "idle" /\ result = "Ok")
                 => /\ \E i \in StartWrites(log) : Len(log) > i
                    /\ ~sr[security].bsy
                    /\ ~cr[security].strt

C25_Witness ==
    /\ Returned("erase_page") /\ result = "Ok" /\ page = 256
    /\ chip = "l5" /\ security = "Secure"
    /\ StartWrites(log) # {}

----------------------------------------------------------------------------
(* C26: the completion flag after erase_page *)

\* C26 (as stated): on every build, when erase_page returns Ok the
\* end-of-operation flag is clear (taking calls that found it clear at
\* entry, so that a flag seen at return was set for this erase).
C26_EopClearedOnOk ==
    (Returned("erase_page") /\ result = "Ok" /\ ~sr0.eop)
        => ~sr[security].eop

\* What holds: the f3 and f4 branches, the only ones that write EOP back,
\* return Ok with the flag clear.
C26_EopClearedF3F4 ==
    (Returned("erase_page") /\ result = "Ok" /\ chip \in {"f3", "f4"})
        => ~sr[security].eop

----------------------------------------------------------------------------
(* C27: the order of the steps of erase_bank *)

MerWrites(l) ==
    {i \in Writes(l) : l[i].reg = "cr" /\ (l[i].set \cup l[i].clr) \cap {"mer1", "mer2"} # {}}

\* The steps of an erase_bank log after the prefix: mass-erase write(s), one
\* start write, a status read, the lock step; no page number, bank select or
\* page-erase enable is written.
C27_Steps(l, sec) ==
    /\ MerWrites(l) # {}
    /\ \E s \in StartWrites(l) :
          /\ StartWrites(l) = {s}
          /\ \A m \in MerWrites(l) : m < s
          /\ l[s + 1] = Rd("sr", sec)
          /\ SubSeq(l, s + 2, Len(l)) = LockLog(sec)
    /\ \A i \in Writes(l) :
          l[i].reg = "cr" => /\ l[i].val = <<>>
                             /\ (l[i].set \cup l[i].clr) \cap {"per", "bker", "pnb"} = {}

\* C27 (as stated): on every build an erase_bank that returns Ok has made the
\* mass-erase write(s), then exactly one start write, then the busy-wait, then
\* the lock step, and has written no page or bank-select field.
C27_EraseBankSteps ==
    (Returned("erase_bank") /\ result = "Ok") => C27_Steps(log, security)

\* What holds: the steps are these on f3, f4, the default build and l5.
C27_EraseBankStepsStarted ==
    (Returned("erase_bank") /\ result = "Ok" /\ chip \notin {"g0", "g4"})
        => C27_Steps(log, security)

----------------------------------------------------------------------------
(* C28: the mass-erase enable bits when the command is started *)

\* The enable bits of the banks `b` selects; f3, f4 and g0 have one bit.
MerSelected(c, b) ==
    IF c \in {"f3", "f4", "g0"} THEN {"mer1"}
    ELSE CASE b = "Bank1" -> {"mer1"}
           [] b = "Bank2" -> {"mer2"}
           [] OTHER       -> {"mer1", "mer2"}

MerSet(r) == {f \in {"mer1", "mer2"} : IF f = "mer1" THEN r.mer1 ELSE r.mer2}

\* C28 (as stated): when erase_bank has written the start bit, the
\* mass-erase enable bit of every bank selected by `banks` is set in the
\* control register.
C28_MerSetAtStart ==
    (op = "erase_bank" /\ pc = "eb_wait" /\ StartWrites(log) # {})
        => MerSelected(chip, banks) \subseteq MerSet(cr[security])

\* What the code does: step 3 writes the enable bits with clear_bit(), so the
\* bits of the selected banks are clear when the start bit is written.
C28_MerClearAtStart ==
    (op = "erase_bank" /\ pc = "eb_wait" /\ StartWrites(log) # {})
        => MerSelected(chip, banks) \cap MerSet(cr[security]) = {}

----------------------------------------------------------------------------
(* C29: write_page waits after every double word *)

PgSetWrites(l) == {i \in Writes(l) : l[i].reg = "cr" /\ "pg" \in l[i].set}
PgClearWrites(l) == {i \in Writes(l) : l[i].reg = "cr" /\ "pg" \in l[i].clr}

\* The writes of the second (high) word of a double word.
HighWrites(l) == {i \in MemWrites(l) : l[i].addr % 8 = 4}

\* C29: in write_page the controller is never busy at a point where the call
\* is about to write a word, test or clear the completion flag, or clear the
\* program enable: the call gets there only through a status read that found
\* busy clear.  In the log the write of the high word of a double word is
\* followed directly by a status read, the write that sets the program enable
\* precedes every write to flash, and the write that clears it follows every
\* write to flash and the status reads after the last one.
C29_WaitAfterEachDword ==
    (op = "write_page")
        => /\ pc \in {"wp_lo", "wp_hi", "wp_eop", "wp_eopclr", "wp_pgclr"}
                 => ~sr[security].bsy
           /\ \A i \in HighWrites(log) :
                 /\ i - 1 \in MemWrites(log) /\ log[i - 1].addr = log[i].addr - 4
                 /\ Len(log) > i => log[i + 1] = Rd("sr", security)
           /\ \A m \in MemWrites(log) :
                 /\ \E s \in PgSetWrites(log) : s < m
                 /\ \A c \in PgClearWrites(log) :
                       /\ m < c
                       /\ \E r \in (m + 1)..(c - 1) : log[r] = Rd("sr", security)
           /\ (pc = "idle" /\ result = "Ok")
                 => /\ Cardinality(PgClearWrites(log)) = 1
                    /\ Cardinality(HighWrites(log)) = Len(data)

C29_Witness ==
    /\ Returned("write_page") /\ result = "Ok" /\ Len(data) >= 2
    /\ Cardinality(HighWrites(log)) = Len(data)
    /\ \A i \in HighWrites(log) : log[i + 1] = Rd("sr", security)

----------------------------------------------------------------------------
(* C30: write_page and the completion flag *)

SrWrites(l) == {i \in Writes(l) : l[i].reg = "sr"}

\* C30: write_page writes the status register only to clear a completion
\* flag it has just read as set (the write follows the read of the test and
\* names EOP), and an unset flag is no error: a call that got as far as
\* setting the program enable returns Ok whether or not it ever saw EOP set,
\* with every double word written.  A call that wrote data returns with EOP
\* clear.
C30_EopNotRequired ==
    (op = "write_page")
        => /\ pc = "wp_eopclr" => sr[security].eop
           /\ \A i \in SrWrites(log) :
                 /\ "eop" \in log[i].set
                 /\ log[i - 1] = Rd("sr", security) /\ log[i - 2] = Rd("sr", security)
           /\ Cardinality(SrWrites(log)) <= Cardinality(HighWrites(log))
           /\ (pc = "idle" /\ PgSetWrites(log) # {})
                 => /\ result = "Ok"
                    /\ Cardinality(HighWrites(log)) = Len(data)
                    /\ Len(data) > 0 => ~sr[security].eop

\* A write that never saw EOP set and returned Ok.
C30_Witness ==
    /\ Returned("write_page") /\ result = "Ok" /\ Len(data) > 0
    /\ ~sr0.eop /\ SrWrites(log) = {}
    /\ mem # mem0

----------------------------------------------------------------------------
(* C31: the error flags are never written by the driver *)

\* The program-alignment, programming and write-protection flags (pgerr and
\* wrprterr are the f3 names of the last two).
C31_Flags == {"pgaerr", "progerr", "wrperr", "pgerr", "wrprterr"}

\* C31 (as stated): no step of the driver clears one of these flags: once set
\* it stays set, so that every later call finds it at its error check.
C31_FlagsPersist ==
    [][\A d \in Security : (sr[d].errs \cap C31_Flags) \subseteq sr'[d].errs]_vars

\* What holds: a call that finds one of the flags at its error check returns
\* Illegal without a command write (Busy or Failure when those come first),
\* and a call that returns an error leaves the flags as it found them.
C31_FlagAtEntryRejects ==
    (pc = "idle" /\ op \in Mutating)
        => /\ (sr0.errs \cap C31_Flags # {})
                 => /\ result \in {"Illegal", "Busy", "Failure"}
                    /\ CommandWrites(log) = {}
           /\ (result \in {"Illegal", "Busy", "Failure"})
                 => sr[security].errs = sr0.errs

----------------------------------------------------------------------------
(* C32: precedence of the errors *)

\* The unlock of the call succeeded: the call went on past the lock-bit read.
C32_Unlocked == Len(log) > 3

\* The order Failure, Busy, Illegal, PageOutOfRange, with `pending` the error
\* flags that count as pending at the error check.
C32_Order(pendingFlags) ==
    /\ result \in {"Ok", "Failure", "Busy", "Illegal", "PageOutOfRange"}
    /\ (result = "Failure") = ~C32_Unlocked
    /\ C32_Unlocked => (result = "Busy") = srRead.bsy
    /\ (C32_Unlocked /\ ~srRead.bsy) => (result = "Illegal") = (pendingFlags # {})
    /\ result = "PageOutOfRange"
          => /\ op = "erase_page" /\ page >= 2 * BANK_SPLIT
             /\ C32_Unlocked /\ ~srRead.bsy /\ pendingFlags = {}

\* C32 (as stated): a call of erase_page, erase_bank or write_page returns
\* Failure when the unlock failed; otherwise Busy when its busy check read
\* the busy flag set, whatever the error flags; otherwise Illegal when an
\* error flag was pending; and PageOutOfRange only after all three checks
\* passed, with no error flag pending.
C32_Precedence ==
    (pc = "idle" /\ op \in Mutating) => C32_Order(srRead.errs)

\* What holds: the same order with the flags check_illegal reads in the
\* build and register set of the call.
C32_PrecedenceChecked ==
    (pc = "idle" /\ op \in Mutating)
        => C32_Order(srRead.errs \cap CheckedFlags(chip, security))

----------------------------------------------------------------------------
(* C33: no lock while the command is in progress *)

LockWrites(l) == {i \in Writes(l) : l[i].reg = "cr" /\ "lock" \in l[i].set}

\* The positions of a call after its unlock has succeeded.
C33_Unlocked == pc \notin {"idle", "key1", "key2", "rdlock"}

\* C33: from the successful unlock of erase_page, erase_bank or write_page to
\* its lock step the lock bit is clear; the lock write is the last access of
\* the call and there is no other; and on the success path the call reaches
\* the lock step with busy clear: every start write and every write to flash
\* is followed, before the lock write, by a status read.
C33_NoLockMidCommand ==
    (op \in Mutating)
        => /\ C33_Unlocked => ~cr[security].lock
           /\ \A i \in LockWrites(log) : i = Len(log) /\ pc = "idle"
           /\ (pc = "lock" /\ pending = "Ok") => ~sr[security].bsy
           /\ (pc = "idle" /\ result = "Ok")
                 => /\ ~sr[security].bsy
                    /\ Cardinality(LockWrites(log)) = 1
                    /\ \A i \in StartWrites(log) \cup MemWrites(log) :
                          \E r \in (i + 1)..(Len(log) - 2) : log[r] = Rd("sr", security)

C33_Witness ==
    /\ Returned("erase_bank") /\ result = "Ok" /\ banks = "Both" /\ chip = "l4"
    /\ StartWrites(log) # {} /\ LockWrites(log) = {Len(log)}
    /\ cr[security].lock

----------------------------------------------------------------------------
(* C34: write_page and the end of the page *)

\* C34: a write_page(page, data) that got past its checks returns Ok and has
\* written one word at each of the 2 * len(data) word addresses from
\* page_to_address(page) on, 8 * len(data) bytes in all, whatever
\* len(data): with 8 * len(data) <= 2048 (up to 256 double words) every
\* write lies inside the page, and with more the writes go on into the
\* following page, and the call still returns Ok.
C34_NoBoundOnData ==
    (Returned("write_page") /\ PgSetWrites(log) # {})
        => LET w == MemWriteSeq(log)
               base == page_to_address(page)
           IN /\ result = "Ok"
              /\ Len(w) = 2 * Len(data)
              /\ \A k \in 1..Len(w) : w[k].addr = base + 4 * (k - 1)
              /\ (8 * Len(data) <= PAGE_SIZE)
                    => \A k \in 1..Len(w) : w[k].addr + 4 <= page_to_address(page + 1)
              /\ (8 * Len(data) > PAGE_SIZE)
                    => w[Len(w)].addr >= page_to_address(page + 1)

\* A write of 257 double words that returned Ok with its last double word in
\* the following page.
C34_Witness ==
    /\ Returned("write_page") /\ result = "Ok" /\ Len(data) = 257
    /\ log[Len(log) - 7] = WrMem(page_to_address(page + 1), LowWord(data[257]))
    /\ log[Len(log) - 6] = WrMem(page_to_address(page + 1) + 4, HighWord(data[257]))

\* A write of 256 double words that returned Ok with its last word at the
\* end of the page.
C34_WitnessFull ==
    /\ Returned("write_page") /\ result = "Ok" /\ Len(data) = 256
    /\ log[Len(log) - 6] = WrMem(page_to_address(page + 1) - 4, HighWord(data[256]))

----------------------------------------------------------------------------
(* C35: cfg_channel disables, configures and enables; stop disables *)

\* The CCR writes of a cfg_channel log, as set_ccr! makes them for the
\* arguments a: EN clear, MEM2MEM clear when circular mode is requested, then
\* one write of the configuration fields together with EN, each finding EN
\* clear except the first.
C35_CcrWrites(l, a) ==
    LET n == Len(l)
        k == IF EnabledBit(a.circular) THEN 6 ELSE 5
    IN /\ n = k
       /\ l[4].reg = "ccr" /\ l[4].ch = a.channel /\ l[4].fields = {"en"}
       /\ EnabledBit(a.circular)
             => l[5].reg = "ccr" /\ l[5].ch = a.channel
                   /\ l[5].fields = {"mem2mem"} /\ ~l[5].en
       /\ l[n].reg = "ccr" /\ l[n].ch = a.channel
             /\ l[n].fields = ConfigFields \cup {"en"} /\ ~l[n].en

\* C35: when cfg_channel returns, its CCR writes were EN clear, MEM2MEM clear
\* (circular mode requested), configuration with EN set, in this order; the
\* channel is enabled, its priority, direction, circular mode, increment
\* modes and data sizes are the requested ones, MEM2MEM is clear when
\* circular mode was requested, and no other channel has changed.  A stop
\* changes the EN bit of its channel, to clear, and nothing else.
C35_CfgChannelThenStop ==
    [][/\ (dop = "cfg_channel" /\ dpc = "ccr" /\ dpc' = "idle")
             => LET r == dch'[darg.channel]
                IN /\ C35_CcrWrites(dlog', darg)
                   /\ r.en
                   /\ [f \in ConfigFields |-> r[f]] = Requested(darg)
                   /\ EnabledBit(darg.circular) => ~r.mem2mem
                   /\ \A c \in DmaChannel \ {darg.channel} : dch'[c] = dch[c]
       /\ (dop' = "stop" /\ dcalls' = dcalls + 1)
             => dch' = [dch EXCEPT ![darg'.channel].en = FALSE]
      ]_vars

\* On a controller whose channels were all enabled and in memory-to-memory
\* mode (channel 2 still is), channel 1 has been configured for circular
\* mode and is enabled with MEM2MEM clear, and a stop of channel 7 has
\* disabled channel 7 only.
C35_Witness ==
    /\ dpc = "idle" /\ dop = "stop" /\ darg.channel = 7
    /\ dch[2].en /\ dch[2].mem2mem
    /\ dch[1].en /\ dch[1].circ /\ ~dch[1].mem2mem /\ dch[1].pl = 3
    /\ ~dch[7].en /\ dch[7].mem2mem

----------------------------------------------------------------------------
(* C36: no register of a channel is written while the channel is enabled *)

\* C36 (as stated): every write of cfg_channel to a register of the channel
\* other than the write that clears EN (peripheral address, memory address,
\* number of data, MEM2MEM and the configuration fields of CCR) finds the EN
\* bit of the channel clear.
C36_NoWriteWhileEnabled ==
    (dop = "cfg_channel")
        => \A i \in 1..Len(dlog) : dlog[i].fields # {"en"} => ~dlog[i].en

\* What holds: the writes to CCR after the EN clear find EN clear.
C36_CcrWhileDisabled ==
    (dop = "cfg_channel")
        => \A i \in 1..Len(dlog) :
              (dlog[i].reg = "ccr" /\ dlog[i].fields # {"en"}) => ~dlog[i].en

====
